---- MODULE Spec2Model ----
(***************************************************************************)
(* Model of era_5g_server.server.NetworkApplicationServer: the two         *)
(* Socket.IO namespaces (CONTROL, DATA) of a client connection, the        *)
(* connect / disconnect / command handlers the server registers with the   *)
(* transport, and the lookups between a connection id (eio_sid) and its    *)
(* namespace session ids (sid).                                            *)
(*                                                                         *)
(* The transport (python-socketio Server and its manager) is the           *)
(* environment of the handlers: it creates a namespace session before the  *)
(* connect handler runs, removes it after the disconnect handler returns,  *)
(* and delivers what the handlers emit.  Handlers run on threads, so the   *)
(* steps of different events interleave.                                   *)
(***************************************************************************)
EXTENDS Integers, FiniteSets, Sequences, TLC

\* ---------------------------------------------------------------- bounds
MaxConns == 2

\* ------------------------------------------------------------- constants
CONTROL_NAMESPACE == "/control"
DATA_NAMESPACE == "/data"
COMMAND_ERROR_EVENT == "command_error"
MESSAGE_EVENT == "message"

Namespaces == {CONTROL_NAMESPACE, DATA_NAMESPACE}

\* Python's None, and the marker of a call that raised instead of returning.
PyNone == "<None>"
NotFoundError == "<NotFoundError>"

EioPool == <<"e1", "e2", "e3", "e4">>
SidPool == <<"s1", "s2", "s3", "s4">>
Conns == {EioPool[i] : i \in 1..MaxConns}
Sids == {SidPool[i] : i \in 1..MaxConns}

\* The session id the transport generates for connection i in a namespace.
\* Ids are unique within a namespace only: the same value names sessions of
\* different connections in CONTROL and in DATA.
GenerateId(eio_sid, namespace) ==
    LET i == CHOOSE k \in 1..MaxConns : EioPool[k] = eio_sid
    IN  IF namespace = CONTROL_NAMESPACE
        THEN SidPool[i]
        ELSE SidPool[(i % MaxConns) + 1]

\* str(x) of Python for the values of the model: str(None) is "None".
Str(x) == IF x = PyNone THEN "None" ELSE x

VARIABLES
    rooms,      \* rooms[n]: the live sessions of namespace n, pairs <<sid, eio_sid>>
    config,     \* constructor arguments kept by the server
    pending,    \* pending[n]: sessions of n whose disconnect has begun
    conn,       \* the connect event being processed
    disc,       \* the disconnect event being processed
    cmd         \* the control command event being processed

vars == <<rooms, config, pending, conn, disc, cmd>>

\* ------------------------------------------------- transport: the manager
\* manager.sid_from_eio_sid: None when the connection has no session in n.
sid_from_eio_sid(eio_sid, namespace) ==
    IF \E p \in rooms[namespace] : p[2] = eio_sid
    THEN (CHOOSE p \in rooms[namespace] : p[2] = eio_sid)[1]
    ELSE PyNone

\* manager.eio_sid_from_sid: None when the session is not in n.
eio_sid_from_sid(sid, namespace) ==
    IF \E p \in rooms[namespace] : p[1] = sid
    THEN (CHOOSE p \in rooms[namespace] : p[1] = sid)[2]
    ELSE PyNone

\* manager.is_connected: the session is in n and its disconnect has not begun.
is_connected(sid, namespace) ==
    /\ \E p \in rooms[namespace] : p[1] = sid
    /\ sid \notin pending[namespace]

\* The sessions an emission to `room` of `namespace` reaches; room None is
\* the whole namespace, room sid is the session's own room.
Participants(namespace, room) ==
    IF room = PyNone
    THEN {p[1] : p \in rooms[namespace]}
    ELSE {p[1] : p \in {q \in rooms[namespace] : q[1] = room}}

\* ----------------------------------------------------------------- lookups
\* Variant: the lookup gives some live session of the namespace.
get_sid_of_namespace_any(eio_sid, namespace) ==
    IF rooms[namespace] # {}
    THEN Str((CHOOSE p \in rooms[namespace] : TRUE)[1])
    ELSE Str(PyNone)

get_sid_of_namespace(eio_sid, namespace) ==
    Str(sid_from_eio_sid(eio_sid, namespace))

get_client_eio_sid(sid, namespace) ==
    Str(eio_sid_from_sid(sid, namespace))

\* Variant: the inverse lookup does not pass its namespace on.
get_eio_sid_of_namespace_data_only(sid, namespace) ==
    get_client_eio_sid(sid, DATA_NAMESPACE)

get_eio_sid_of_namespace(sid, namespace) ==
    get_client_eio_sid(sid, namespace)

get_sid_of_data(eio_sid) == get_sid_of_namespace(eio_sid, DATA_NAMESPACE)

get_sid_of_control(eio_sid) == get_sid_of_namespace(eio_sid, CONTROL_NAMESPACE)

get_eio_sid_of_data(sid) == get_client_eio_sid(sid, DATA_NAMESPACE)

\* Variant: the CONTROL lookup asks for the DATA namespace.
get_eio_sid_of_control_in_data(sid) == get_client_eio_sid(sid, DATA_NAMESPACE)

get_eio_sid_of_control(sid) == get_client_eio_sid(sid, CONTROL_NAMESPACE)

\* ------------------------------------------------------------- emissions
NoEmit == [event |-> "none", namespace |-> "none", to |-> PyNone,
           recipients |-> {}, about |-> PyNone]

\* sio.emit(event, data, namespace=namespace, to=to)
Emit(event, namespace, to, about) ==
    [event |-> event, namespace |-> namespace, to |-> to,
     recipients |-> Participants(namespace, to), about |-> about]

\* sio.send(data, namespace=namespace): a "message" event with no recipient
SendWelcome(namespace, sid) == Emit(MESSAGE_EVENT, namespace, PyNone, sid)

\* ------------------------------------------------------- control command
FieldNames == {"cmd_type", "clear_queue", "data"}

\* The value a payload carries under a key other than cmd_type.
PayloadValue(k) ==
    CASE k = "clear_queue" -> "True"
      [] k = "data" -> "{}"
      [] OTHER -> "x"

\* Inbound control payloads: mappings of named fields.
Payload(K, t) ==
    [k \in K |-> IF k = "cmd_type" THEN t ELSE PayloadValue(k)]

Payloads ==
    {Payload({}, "init"),
     Payload({"clear_queue"}, "init"),
     Payload({"cmd_type"}, "init"),
     Payload({"cmd_type", "clear_queue"}, "get_state"),
     Payload({"cmd_type", "bogus"}, "get_state")}

\* Variant: keywords that are no field of the dataclass are ignored.
ParseFails_missing_only(data) ==
    "cmd_type" \notin DOMAIN data

\* ControlCommand(**data) raises TypeError: the required field is missing
\* or a keyword is not a field of the dataclass.
ParseFails(data) ==
    \/ "cmd_type" \notin DOMAIN data
    \/ ~(DOMAIN data \subseteq FieldNames)

\* ControlCommand(**data): the given fields, defaults for the others.
ControlCommand(data) ==
    [cmd_type |-> data["cmd_type"],
     clear_queue |-> IF "clear_queue" \in DOMAIN data THEN data["clear_queue"] ELSE "False",
     data |-> IF "data" \in DOMAIN data THEN data["data"] ELSE PyNone]

\* f"Could not parse Control Command. {repr(e)}"
ParseErrorMessage(data) ==
    IF "cmd_type" \notin DOMAIN data /\ DOMAIN data \subseteq FieldNames
    THEN "Could not parse Control Command. TypeError(missing cmd_type)"
    ELSE "Could not parse Control Command. TypeError(unexpected keyword)"

\* What a user-supplied command handler may return.
HandlerOutcomes ==
    {<<TRUE, "ok">>, <<FALSE, "rejected">>}

\* ------------------------------------------------------------------ slots
\* An event being processed: where its handler stands (pc), its arguments,
\* and what the handler has done so far (log record, emission, calls made).
NoLog == [what |-> "none", namespace |-> "none", sid |-> PyNone, eio_sid |-> PyNone]

NoConn == [pc |-> "idle", namespace |-> "none", sid |-> PyNone,
           eio_sid |-> PyNone,
           log |-> NoLog, emit |-> NoEmit]

NoDisc == [pc |-> "idle", namespace |-> "none", sid |-> PyNone,
           eio_sid |-> PyNone,
           user_calls |-> 0, default_calls |-> 0, hook_sid |-> PyNone,
           log |-> NoLog]

\* No (accepted, message) pair, and no ControlCommand.
NoResult == <<>>
NoCommand == [cmd_type |-> PyNone, clear_queue |-> PyNone, data |-> PyNone]

\* No call of send_command_error.
NoSent == [emit |-> NoEmit, raised |-> FALSE]

NoCmd == [pc |-> "idle", sid |-> PyNone, data |-> <<>>,
          user_calls |-> 0, default_calls |-> 0,
          handler_command |-> NoCommand, handler_sid |-> PyNone,
          handler_result |-> NoResult, result |-> NoResult,
          emits |-> 0, emit |-> NoEmit, log |-> NoLog,
          sent |-> NoSent]

Init ==
    /\ rooms = [n \in Namespaces |-> {}]
    /\ config \in [command_callback : BOOLEAN,
                   disconnect_callback : BOOLEAN,
                   disconnect_on_unhandled : BOOLEAN]
    /\ pending = [n \in Namespaces |-> {}]
    /\ conn = NoConn
    /\ disc = NoDisc
    /\ cmd = NoCmd

\* --------------------------------------------------------------- connect
\* Session ids are unique: an id of namespace n is free when no live
\* session of n has it and no event being processed is about it.
FreeSid(sid, n) ==
    /\ \A p \in rooms[n] : p[1] # sid
    /\ ~(n = CONTROL_NAMESPACE /\ cmd.pc # "idle" /\ cmd.sid = sid)

\* The transport accepts connection eio_sid into namespace n: the manager
\* creates a fresh session id and enters it in the namespace, then the
\* connect handler registered for n is due.  One connect or disconnect event
\* is processed at a time, concurrently with one command event.
TransportConnect(eio_sid, n) ==
    /\ conn.pc = "idle"
    /\ disc.pc = "idle"
    /\ sid_from_eio_sid(eio_sid, n) = PyNone
    /\ FreeSid(GenerateId(eio_sid, n), n)
    /\ rooms' = [rooms EXCEPT ![n] = @ \cup {<<GenerateId(eio_sid, n), eio_sid>>}]
    /\ conn' = [NoConn EXCEPT !.pc = "pending", !.namespace = n,
                              !.sid = GenerateId(eio_sid, n),
                              !.eio_sid = eio_sid]
    /\ UNCHANGED <<config, pending, disc, cmd>>

\* Variant: the signal always resolves the session in the CONTROL namespace.
ConnectLog_control(namespace, sid) ==
    [what |-> "connected", namespace |-> namespace, sid |-> sid,
     eio_sid |-> get_client_eio_sid(sid, CONTROL_NAMESPACE)]

\* The lifecycle signal of a connect handler.
ConnectLog(namespace, sid) ==
    [what |-> "connected", namespace |-> namespace, sid |-> sid,
     eio_sid |-> get_client_eio_sid(sid, namespace)]

data_connect_callback(sid) ==
    /\ conn.pc = "pending"
    /\ conn.namespace = DATA_NAMESPACE
    /\ conn.sid = sid
    /\ conn' = [conn EXCEPT !.pc = "handled",
                            !.log = ConnectLog(DATA_NAMESPACE, sid),
                            !.emit = SendWelcome(DATA_NAMESPACE, sid)]
    /\ UNCHANGED <<rooms, config, pending, disc, cmd>>

control_connect_callback(sid) ==
    /\ conn.pc = "pending"
    /\ conn.namespace = CONTROL_NAMESPACE
    /\ conn.sid = sid
    /\ conn' = [conn EXCEPT !.pc = "handled",
                            !.log = ConnectLog(CONTROL_NAMESPACE, sid),
                            !.emit = SendWelcome(CONTROL_NAMESPACE, sid)]
    /\ UNCHANGED <<rooms, config, pending, disc, cmd>>

\* The connect handler has returned: the transport confirms the connection
\* to the client, and the session's own events may follow.
TransportConnectAck ==
    /\ conn.pc = "handled"
    /\ conn' = NoConn
    /\ UNCHANGED <<rooms, config, pending, disc, cmd>>

\* A session whose connect handler has not returned yet.
Connecting(sid, n) == conn.pc # "idle" /\ conn.namespace = n /\ conn.sid = sid

\* ------------------------------------------------------------ disconnect
\* Variant: the session is removed before its disconnect handler is called.
TransportDisconnect_removes_first(n, sid) ==
    /\ disc.pc = "idle"
    /\ conn.pc = "idle"
    /\ is_connected(sid, n)
    /\ rooms' = [rooms EXCEPT ![n] = {p \in @ : p[1] # sid}]
    /\ disc' = [NoDisc EXCEPT !.pc = "pending", !.namespace = n, !.sid = sid,
                              !.eio_sid = eio_sid_from_sid(sid, n)]
    /\ UNCHANGED <<config, pending, conn, cmd>>

\* The transport begins the disconnect of session sid of namespace n: the
\* session is marked as disconnecting and the disconnect handler is due.
TransportDisconnect(n, sid) ==
    /\ disc.pc = "idle"
    /\ conn.pc = "idle"
    /\ is_connected(sid, n)
    /\ pending' = [pending EXCEPT ![n] = @ \cup {sid}]
    /\ disc' = [NoDisc EXCEPT !.pc = "pending", !.namespace = n, !.sid = sid,
                              !.eio_sid = eio_sid_from_sid(sid, n)]
    /\ UNCHANGED <<rooms, config, conn, cmd>>

\* The default disconnect_callback of the server: returns at once.
disconnect_callback(d, sid) ==
    [d EXCEPT !.default_calls = @ + 1, !.hook_sid = sid]

\* The lifecycle signal of a disconnect handler.
DisconnectLog(namespace, sid) ==
    [what |-> "disconnected", namespace |-> namespace, sid |-> sid,
     eio_sid |-> get_client_eio_sid(sid, namespace)]

\* Variant: the default callback is called as well as the user-supplied one.
InvokeDisconnectHook_both(d, sid) ==
    IF config.disconnect_callback
    THEN [disconnect_callback(d, sid) EXCEPT !.pc = "in_hook", !.user_calls = @ + 1]
    ELSE [disconnect_callback(d, sid) EXCEPT
            !.pc = "handled",
            !.log = DisconnectLog(DATA_NAMESPACE, sid)]

\* The teardown hook data_disconnect_callback calls: the user-supplied
\* callback when one was given, which then runs, else the default, after
\* which the handler writes its lifecycle signal and returns.
InvokeDisconnectHook(d, sid) ==
    IF config.disconnect_callback
    THEN [d EXCEPT !.pc = "in_hook", !.user_calls = @ + 1, !.hook_sid = sid]
    ELSE [disconnect_callback(d, sid) EXCEPT
            !.pc = "handled",
            !.log = DisconnectLog(DATA_NAMESPACE, sid)]

\* Variant: the DATA disconnect handler also closes the CONTROL session of
\* the connection.
data_disconnect_callback_closes_control(sid) ==
    /\ disc.pc = "pending"
    /\ disc.namespace = DATA_NAMESPACE
    /\ disc.sid = sid
    /\ disc' = InvokeDisconnectHook(disc, sid)
    /\ rooms' = [rooms EXCEPT ![CONTROL_NAMESPACE] = {p \in @ : p[2] # disc.eio_sid}]
    /\ UNCHANGED <<config, pending, conn, cmd>>

\* data_disconnect_callback up to the return of the default callback, or up
\* to the call of the user-supplied callback, which then runs.
data_disconnect_callback(sid) ==
    /\ disc.pc = "pending"
    /\ disc.namespace = DATA_NAMESPACE
    /\ disc.sid = sid
    /\ disc' = InvokeDisconnectHook(disc, sid)
    /\ UNCHANGED <<rooms, config, pending, conn, cmd>>

\* The user-supplied disconnect callback returns: data_disconnect_callback
\* writes its lifecycle signal and returns.
data_disconnect_callback_resume ==
    /\ disc.pc = "in_hook"
    /\ disc' = [disc EXCEPT !.pc = "handled",
                            !.log = DisconnectLog(DATA_NAMESPACE, disc.sid)]
    /\ UNCHANGED <<rooms, config, pending, conn, cmd>>

\* The user-supplied disconnect callback raises: the exception leaves
\* data_disconnect_callback, which writes no signal.
data_disconnect_callback_raise ==
    /\ disc.pc = "in_hook"
    /\ disc' = [disc EXCEPT !.pc = "raised"]
    /\ UNCHANGED <<rooms, config, pending, conn, cmd>>

control_disconnect_callback(sid) ==
    /\ disc.pc = "pending"
    /\ disc.namespace = CONTROL_NAMESPACE
    /\ disc.sid = sid
    /\ disc' = [disc EXCEPT !.pc = "handled",
                            !.log = DisconnectLog(CONTROL_NAMESPACE, sid)]
    /\ UNCHANGED <<rooms, config, pending, conn, cmd>>

\* Variant: the removal closes the connection's sessions of every namespace.
TransportRemove_every_namespace ==
    /\ disc.pc = "handled"
    /\ rooms' = [n \in Namespaces |-> {p \in rooms[n] : p[2] # disc.eio_sid}]
    /\ pending' = [pending EXCEPT ![disc.namespace] = @ \ {disc.sid}]
    /\ disc' = NoDisc
    /\ UNCHANGED <<config, conn, cmd>>

\* The disconnect handler has returned: the manager removes the session.
TransportRemove ==
    /\ disc.pc = "handled"
    /\ rooms' = [rooms EXCEPT ![disc.namespace] = {p \in @ : p[1] # disc.sid}]
    /\ pending' = [pending EXCEPT ![disc.namespace] = @ \ {disc.sid}]
    /\ disc' = NoDisc
    /\ UNCHANGED <<config, conn, cmd>>

\* The disconnect handler raised: the transport logs the exception and the
\* removal that follows the handler is not reached.
TransportDisconnectAbort ==
    /\ disc.pc = "raised"
    /\ disc' = NoDisc
    /\ UNCHANGED <<rooms, config, pending, conn, cmd>>

\* ------------------------------------------------------ command dispatch
\* The transport receives a "command" event of connected CONTROL session sid
\* with payload data: control_command_callback is due.
TransportCommand(sid, data) ==
    /\ cmd.pc = "idle"
    /\ is_connected(sid, CONTROL_NAMESPACE)
    /\ ~Connecting(sid, CONTROL_NAMESPACE)
    /\ cmd' = [NoCmd EXCEPT !.pc = "arrived", !.sid = sid, !.data = data]
    /\ UNCHANGED <<rooms, config, pending, conn, disc>>

\* Variant: the default handler accepts only the "init" command.
command_callback_init_only(control_command, sid) ==
    IF control_command.cmd_type = "init"
    THEN <<TRUE, "Control command callback applied">>
    ELSE <<FALSE, "Control command callback not applied">>

\* The default command_callback of the server.
command_callback(control_command, sid) ==
    <<TRUE, "Control command callback applied">>

\* Variant: the handler's outcome is reported as accepted.
DispatchResult_accepted(outcome) == <<TRUE, outcome[2]>>

\* What control_command_callback returns when the handler returned outcome.
DispatchResult(outcome) == outcome

\* Variant: the error event is emitted without a recipient.
ParseErrorEmit_broadcast(sid, data) ==
    Emit(COMMAND_ERROR_EVENT, CONTROL_NAMESPACE, PyNone, ParseErrorMessage(data))

\* The error event control_command_callback emits when parsing fails.
ParseErrorEmit(sid, data) ==
    Emit(COMMAND_ERROR_EVENT, CONTROL_NAMESPACE, sid, ParseErrorMessage(data))

\* Variant: a payload that does not parse also closes the session.
control_command_callback_closes_on_error(sid, data) ==
    /\ cmd.pc = "arrived"
    /\ cmd.sid = sid
    /\ cmd.data = data
    /\ IF ParseFails(data)
       THEN /\ cmd' = [cmd EXCEPT
                    !.pc = "returned",
                    !.emits = @ + 1,
                    !.emit = ParseErrorEmit(sid, data),
                    !.log = [what |-> "parse_error", namespace |-> CONTROL_NAMESPACE,
                             sid |-> sid, eio_sid |-> PyNone],
                    !.result = <<FALSE, ParseErrorMessage(data)>>]
            /\ rooms' = [rooms EXCEPT ![CONTROL_NAMESPACE] = {p \in @ : p[1] # sid}]
       ELSE /\ LET control_command == ControlCommand(data)
                   parsed == [cmd EXCEPT
                       !.log = [what |-> "parsed", namespace |-> CONTROL_NAMESPACE,
                                sid |-> sid, eio_sid |-> get_eio_sid_of_control(sid)]]
               IN  IF config.command_callback
                   THEN cmd' = [parsed EXCEPT
                           !.pc = "in_handler",
                           !.user_calls = @ + 1,
                           !.handler_command = control_command,
                           !.handler_sid = sid]
                   ELSE cmd' = [parsed EXCEPT
                           !.pc = "returned",
                           !.default_calls = @ + 1,
                           !.handler_command = control_command,
                           !.handler_sid = sid,
                           !.handler_result = command_callback(control_command, sid),
                           !.result = DispatchResult(command_callback(control_command, sid))]
            /\ rooms' = rooms
    /\ UNCHANGED <<config, pending, conn, disc>>

\* control_command_callback up to its return, or up to the call of the
\* user-supplied command handler, which then runs.
control_command_callback(sid, data) ==
    /\ cmd.pc = "arrived"
    /\ cmd.sid = sid
    /\ cmd.data = data
    /\ IF ParseFails(data)
       THEN cmd' = [cmd EXCEPT
                !.pc = "returned",
                !.emits = @ + 1,
                !.emit = ParseErrorEmit(sid, data),
                !.log = [what |-> "parse_error", namespace |-> CONTROL_NAMESPACE,
                         sid |-> sid, eio_sid |-> PyNone],
                !.result = <<FALSE, ParseErrorMessage(data)>>]
       ELSE LET control_command == ControlCommand(data)
                parsed == [cmd EXCEPT
                    !.log = [what |-> "parsed", namespace |-> CONTROL_NAMESPACE,
                             sid |-> sid, eio_sid |-> get_eio_sid_of_control(sid)]]
            IN  IF config.command_callback
                THEN cmd' = [parsed EXCEPT
                        !.pc = "in_handler",
                        !.user_calls = @ + 1,
                        !.handler_command = control_command,
                        !.handler_sid = sid]
                ELSE cmd' = [parsed EXCEPT
                        !.pc = "returned",
                        !.default_calls = @ + 1,
                        !.handler_command = control_command,
                        !.handler_sid = sid,
                        !.handler_result = command_callback(control_command, sid),
                        !.result = DispatchResult(command_callback(control_command, sid))]
    /\ UNCHANGED <<rooms, config, pending, conn, disc>>

\* Variant: the emission is refused for a session that is not connected.
send_command_error_strict(message, sid) ==
    [emit |-> Emit(COMMAND_ERROR_EVENT, CONTROL_NAMESPACE, sid, message),
     raised |-> ~is_connected(sid, CONTROL_NAMESPACE)]

\* send_command_error: what it emits, and whether it raised.
send_command_error(message, sid) ==
    [emit |-> Emit(COMMAND_ERROR_EVENT, CONTROL_NAMESPACE, sid, message),
     raised |-> FALSE]

\* The application calls send_command_error for the session of the command
\* it is handling; it may do so again and again while the handler runs.
CallSendCommandError ==
    /\ cmd.pc = "in_handler"
    /\ cmd' = [cmd EXCEPT !.sent = send_command_error("rejected", cmd.sid)]
    /\ UNCHANGED <<rooms, config, pending, conn, disc>>

\* Variant: a rejection by the handler is also pushed as an error event.
control_command_callback_resume_reports(outcome) ==
    /\ cmd.pc = "in_handler"
    /\ cmd' = [cmd EXCEPT !.pc = "returned",
                          !.handler_result = outcome,
                          !.result = DispatchResult(outcome),
                          !.sent = NoSent,
                          !.emits = IF outcome[1] THEN @ ELSE @ + 1,
                          !.emit = IF outcome[1] THEN @
                                   ELSE Emit(COMMAND_ERROR_EVENT, CONTROL_NAMESPACE,
                                             cmd.sid, outcome[2])]
    /\ UNCHANGED <<rooms, config, pending, conn, disc>>

\* The user-supplied command handler returns outcome: control_command_callback
\* returns it.
control_command_callback_resume(outcome) ==
    /\ cmd.pc = "in_handler"
    /\ cmd' = [cmd EXCEPT !.pc = "returned",
                          !.handler_result = outcome,
                          !.result = DispatchResult(outcome),
                          !.sent = NoSent]
    /\ UNCHANGED <<rooms, config, pending, conn, disc>>

\* Variant: an error event is emitted for the exception of the handler.
control_command_callback_raise_reports ==
    /\ cmd.pc = "in_handler"
    /\ cmd' = [cmd EXCEPT !.pc = "raised",
                          !.sent = NoSent,
                          !.emits = @ + 1,
                          !.emit = Emit(COMMAND_ERROR_EVENT, CONTROL_NAMESPACE,
                                        cmd.sid, "handler error")]
    /\ UNCHANGED <<rooms, config, pending, conn, disc>>

\* The user-supplied command handler raises: the exception leaves
\* control_command_callback.
control_command_callback_raise ==
    /\ cmd.pc = "in_handler"
    /\ cmd' = [cmd EXCEPT !.pc = "raised", !.sent = NoSent]
    /\ UNCHANGED <<rooms, config, pending, conn, disc>>

\* The transport is done with the command event: it acknowledges the
\* returned outcome, or logs the exception.
TransportCommandDone ==
    /\ cmd.pc \in {"returned", "raised"}
    /\ cmd' = NoCmd
    /\ UNCHANGED <<rooms, config, pending, conn, disc>>

Next ==
    \/ \E e \in Conns, n \in Namespaces : TransportConnect(e, n)
    \/ \E s \in Sids : data_connect_callback(s)
    \/ \E s \in Sids : control_connect_callback(s)
    \/ TransportConnectAck
    \/ \E n \in Namespaces, s \in Sids : TransportDisconnect(n, s)
    \/ \E s \in Sids : data_disconnect_callback(s)
    \/ data_disconnect_callback_resume
    \/ data_disconnect_callback_raise
    \/ \E s \in Sids : control_disconnect_callback(s)
    \/ TransportRemove
    \/ TransportDisconnectAbort
    \/ \E s \in Sids, d \in Payloads : TransportCommand(s, d)
    \/ \E s \in Sids, d \in Payloads : control_command_callback(s, d)
    \/ \E o \in HandlerOutcomes : control_command_callback_resume(o)
    \/ control_command_callback_raise
    \/ CallSendCommandError
    \/ TransportCommandDone

Spec == Init /\ [][Next]_vars

\* The handler threads are scheduled, and a user-supplied command handler
\* that was called returns or raises.
FairSpec ==
    /\ Spec
    /\ WF_vars(\E s \in Sids, d \in Payloads : control_command_callback(s, d))
    /\ WF_vars((\E o \in HandlerOutcomes : control_command_callback_resume(o))
                  \/ control_command_callback_raise)

\* ================================================================ claims
\* The command event in the slot has left control_command_callback.
CmdOver == cmd.pc \in {"returned", "raised"}

\* The payload of the command event in the slot parses.
WellFormed(data) == "cmd_type" \in DOMAIN data /\ DOMAIN data \subseteq FieldNames

\* C1: a payload without cmd_type is rejected: control_command_callback
\* returns accepted = false, emits exactly one COMMAND_ERROR_EVENT on the
\* CONTROL namespace addressed to the originating session id, and calls
\* neither the user-supplied nor the default command handler.
C1_MissingCmdTypeRejected ==
    (cmd.pc \notin {"idle", "arrived"} /\ "cmd_type" \notin DOMAIN cmd.data) =>
        /\ cmd.pc = "returned"
        /\ cmd.result # NoResult
        /\ cmd.result[1] = FALSE
        /\ cmd.emits = 1
        /\ cmd.emit.event = COMMAND_ERROR_EVENT
        /\ cmd.emit.namespace = CONTROL_NAMESPACE
        /\ cmd.emit.to = cmd.sid
        /\ cmd.user_calls = 0
        /\ cmd.default_calls = 0

\* C1 witness: a payload without cmd_type was rejected while a user-supplied
\* handler is registered and a second CONTROL session is connected.
C1_Witness ==
    /\ cmd.pc = "returned"
    /\ "cmd_type" \notin DOMAIN cmd.data
    /\ config.command_callback
    /\ cmd.emit.recipients = {cmd.sid}
    /\ Cardinality(rooms[CONTROL_NAMESPACE]) = 2

\* C2: for a well-formed payload and a registered user-supplied handler,
\* the handler is called exactly once, with the originating session id and a
\* command whose fields equal the payload's, the default handler is not
\* called, and what control_command_callback returns is the handler's pair.
C2_DispatchVerbatim ==
    (cmd.pc \notin {"idle", "arrived"} /\ WellFormed(cmd.data) /\ config.command_callback) =>
        /\ cmd.user_calls = 1
        /\ cmd.default_calls = 0
        /\ cmd.handler_sid = cmd.sid
        /\ \A k \in DOMAIN cmd.data : cmd.handler_command[k] = cmd.data[k]
        /\ cmd.pc = "returned" => (cmd.result # NoResult /\ cmd.result = cmd.handler_result)
        /\ cmd.pc = "in_handler" => cmd.result = NoResult

\* C2 witness: the user-supplied handler reported accepted = false for a
\* payload with an optional field, and was called once.
C2_Witness ==
    /\ cmd.pc = "returned"
    /\ WellFormed(cmd.data)
    /\ "clear_queue" \in DOMAIN cmd.data
    /\ config.command_callback
    /\ cmd.user_calls = 1
    /\ cmd.result = <<FALSE, "rejected">>

\* The command event in the slot got its answer: an outcome was returned
\* (after one error event to the originating session when parsing failed),
\* or the user-supplied handler raised and nothing was returned or emitted.
Responded ==
    \/ /\ cmd.pc = "returned"
       /\ cmd.result # NoResult
       /\ ~WellFormed(cmd.data) => (cmd.emits = 1 /\ cmd.emit.to = cmd.sid)
    \/ /\ cmd.pc = "raised"
       /\ config.command_callback
       /\ cmd.user_calls = 1
       /\ cmd.result = NoResult
       /\ cmd.emits = 0

\* C3 as stated: every command event that is over has returned an outcome
\* or has had an error event delivered to the originating session.
C3_AlwaysAnswered ==
    CmdOver => (cmd.result # NoResult \/ (cmd.emits >= 1 /\ cmd.emit.recipients = {cmd.sid}))

\* C3 amended: every command event that arrived is eventually over, and
\* when it is over either control_command_callback returned an outcome or
\* the user-supplied handler raised, no outcome was returned and no error
\* event was emitted; this holds whatever connects or disconnects meanwhile.
C3_AnsweredOrRaised ==
    /\ (cmd.pc = "arrived") ~> CmdOver
    /\ [](CmdOver => Responded)

\* C3 witness: the handler raised for a command whose session was
\* disconnected and removed while the command was being processed.
C3_Witness ==
    /\ cmd.pc = "raised"
    /\ eio_sid_from_sid(cmd.sid, CONTROL_NAMESPACE) = PyNone

\* C4 as stated: once a disconnect has removed the session of a connection
\* in a namespace, both lookups for that pair fail with NotFoundError.
C4_LookupsFailAfterDisconnect ==
    [][\A n \in Namespaces, s \in Sids, e \in Conns :
        (<<s, e>> \in rooms[n] /\ <<s, e>> \notin rooms'[n]) =>
            /\ get_sid_of_namespace(e, n)' = NotFoundError
            /\ get_eio_sid_of_namespace(s, n)' = NotFoundError]_vars

\* C5: for every live session s of connection c in namespace n, the two
\* lookups are mutually inverse.
C5_LookupsInverse ==
    \A n \in Namespaces : \A p \in rooms[n] :
        /\ get_eio_sid_of_namespace(get_sid_of_namespace(p[2], n), n) = p[2]
        /\ get_sid_of_namespace(get_eio_sid_of_namespace(p[1], n), n) = p[1]

\* C5 witness: connect events have completed, and one session id value is
\* live in both namespaces for two different connections.
C5_Witness ==
    /\ conn.pc = "idle"
    /\ \E s \in Sids, e1, e2 \in Conns :
        /\ e1 # e2
        /\ <<s, e1>> \in rooms[CONTROL_NAMESPACE]
        /\ <<s, e2>> \in rooms[DATA_NAMESPACE]

Other(n) == IF n = CONTROL_NAMESPACE THEN DATA_NAMESPACE ELSE CONTROL_NAMESPACE

\* C6: a step of a connect or disconnect event of one namespace, and any
\* step that changes the sessions of one namespace, leaves the sessions of
\* the other namespace as they were.
C6_NamespacesIndependent ==
    [][\A n \in Namespaces :
        (\/ rooms'[n] # rooms[n]
         \/ (conn' # conn /\ n \in {conn.namespace, conn'.namespace})
         \/ (disc' # disc /\ n \in {disc.namespace, disc'.namespace}))
        => (rooms'[Other(n)] = rooms[Other(n)] /\ pending'[Other(n)] = pending[Other(n)])]_vars

\* C6 witness: one connection holds a CONTROL session and no DATA session
\* while another holds a DATA session and no CONTROL session.
C6_Witness ==
    /\ conn.pc = "idle"
    /\ disc.pc = "idle"
    /\ \E e1, e2 \in Conns :
        /\ sid_from_eio_sid(e1, CONTROL_NAMESPACE) # PyNone
        /\ sid_from_eio_sid(e1, DATA_NAMESPACE) = PyNone
        /\ sid_from_eio_sid(e2, DATA_NAMESPACE) # PyNone
        /\ sid_from_eio_sid(e2, CONTROL_NAMESPACE) = PyNone

\* C7: a DATA disconnect event calls exactly one teardown hook exactly once
\* with the disconnecting session id, the user-supplied one when registered
\* and the default otherwise; a CONTROL disconnect event calls none.
C7_OneTeardownHook ==
    /\ (disc.namespace = DATA_NAMESPACE /\ disc.pc \in {"in_hook", "handled", "raised"}) =>
        /\ disc.hook_sid = disc.sid
        /\ config.disconnect_callback => (disc.user_calls = 1 /\ disc.default_calls = 0)
        /\ ~config.disconnect_callback => (disc.user_calls = 0 /\ disc.default_calls = 1)
    /\ disc.namespace = CONTROL_NAMESPACE =>
        /\ disc.user_calls = 0
        /\ disc.default_calls = 0
        /\ disc.pc \in {"pending", "handled"}

\* C7 witness: a DATA disconnect handler has returned after calling the
\* user-supplied disconnect callback.
C7_Witness ==
    /\ disc.pc = "handled"
    /\ disc.namespace = DATA_NAMESPACE
    /\ disc.user_calls = 1

\* C8: from the start of the DATA disconnect handler, while the disconnect
\* callback runs and until the handler returns, the disconnecting session
\* id resolves to its connection id; the lookup the handler makes after the
\* callback still gets it.
C8_CallbackBeforeRemoval ==
    (disc.namespace = DATA_NAMESPACE /\ disc.pc \in {"pending", "in_hook", "handled"}) =>
        /\ get_eio_sid_of_data(disc.sid) = disc.eio_sid
        /\ get_sid_of_data(disc.eio_sid) = disc.sid
        /\ disc.pc = "handled" => disc.log.eio_sid = disc.eio_sid

\* C8 witness: the user-supplied disconnect callback is running.
C8_Witness ==
    /\ disc.pc = "in_hook"
    /\ disc.namespace = DATA_NAMESPACE
    /\ cmd.pc # "idle"

\* C9 as stated: the welcome message of a connect handler reaches the newly
\* connected session and no other session.
C9_WelcomeOnlyToNewSession ==
    conn.pc = "handled" => conn.emit.recipients = {conn.sid}

\* C10 as stated: with disconnect_on_unhandled set, once the command handler
\* has raised, the session is disconnected and no error event was emitted.
C10_RaiseDisconnects ==
    (cmd.pc = "raised" /\ config.disconnect_on_unhandled) =>
        /\ ~is_connected(cmd.sid, CONTROL_NAMESPACE)
        /\ cmd.emits = 0

\* A step in which send_command_error is called.
SendStep == cmd.pc = "in_handler" /\ cmd'.pc = "in_handler" /\ cmd'.sent # cmd.sent

\* C11 as stated: a call of send_command_error for a session whose
\* disconnect has begun or is over does not raise, delivers nothing and
\* leaves the sessions as they were.
C11_SendAfterDisconnectDropped ==
    [][(SendStep /\ ~is_connected(cmd.sid, CONTROL_NAMESPACE)) =>
        /\ ~cmd'.sent.raised
        /\ cmd'.sent.emit.recipients = {}
        /\ rooms' = rooms
        /\ pending' = pending]_vars

\* C11 amended: a call of send_command_error for a session whose disconnect
\* has begun or is over does not raise and leaves the sessions as they
\* were; it delivers nothing once the session has been removed, and reaches
\* at most that session while its disconnect handler has not returned.
C11_SendNeverRaisesNorResurrects ==
    [][(SendStep /\ ~is_connected(cmd.sid, CONTROL_NAMESPACE)) =>
        /\ ~cmd'.sent.raised
        /\ cmd'.sent.emit.to = cmd.sid
        /\ cmd'.sent.emit.recipients \subseteq {cmd.sid}
        /\ eio_sid_from_sid(cmd.sid, CONTROL_NAMESPACE) = PyNone
                => cmd'.sent.emit.recipients = {}
        /\ rooms' = rooms
        /\ pending' = pending]_vars

\* C11 witness: send_command_error was called for a session that its
\* disconnect had already removed, and nothing was delivered.
C11_Witness ==
    /\ cmd.pc = "in_handler"
    /\ cmd.sent # NoSent
    /\ cmd.sent.emit.recipients = {}
    /\ eio_sid_from_sid(cmd.sid, CONTROL_NAMESPACE) = PyNone

\* C12: only a parse failure makes control_command_callback emit an error
\* event: for a payload that parses it emits none, whether the handler
\* accepts, rejects or raises, and when it has emitted one the payload did
\* not parse and the outcome is a rejection.
C12_OnlyParseFailureEmits ==
    /\ (cmd.pc \notin {"idle", "arrived"} /\ WellFormed(cmd.data)) =>
        (cmd.emits = 0 /\ cmd.emit = NoEmit)
    /\ cmd.emits > 0 =>
        /\ ~WellFormed(cmd.data)
        /\ cmd.emits = 1
        /\ cmd.pc = "returned"
        /\ cmd.result[1] = FALSE

\* C12 witness: the user-supplied handler rejected a command that parsed,
\* its session is still connected, and no error event was emitted.
C12_Witness ==
    /\ cmd.pc = "returned"
    /\ WellFormed(cmd.data)
    /\ cmd.handler_result = <<FALSE, "rejected">>
    /\ is_connected(cmd.sid, CONTROL_NAMESPACE)
    /\ cmd.emits = 0

\* C13: with no command handler registered, every command that parses is
\* answered by the default handler, called once, with
\* (true, "Control command callback applied"), and no error event is emitted.
C13_DefaultHandlerAccepts ==
    (cmd.pc \notin {"idle", "arrived"} /\ WellFormed(cmd.data) /\ ~config.command_callback) =>
        /\ cmd.pc = "returned"
        /\ cmd.result = <<TRUE, "Control command callback applied">>
        /\ cmd.default_calls = 1
        /\ cmd.user_calls = 0
        /\ cmd.emits = 0

\* C13 witness: the default handler answered a command other than "init"
\* that carries an optional field.
C13_Witness ==
    /\ cmd.pc = "returned"
    /\ ~config.command_callback
    /\ WellFormed(cmd.data)
    /\ cmd.data["cmd_type"] = "get_state"
    /\ cmd.default_calls = 1

\* The connection of the command event in the slot holds no DATA session.
ControlOnly ==
    \A p \in rooms[CONTROL_NAMESPACE] :
        p[1] = cmd.sid => sid_from_eio_sid(p[2], DATA_NAMESPACE) = PyNone

\* C14: a payload that has cmd_type but does not match the schema is
\* rejected: one error event {error: message} on CONTROL addressed to the
\* session, the outcome (false, message) with the same message, no
\* ControlCommand constructed and no handler called.
C14_SchemaMismatchRejected ==
    (cmd.pc \notin {"idle", "arrived"} /\ "cmd_type" \in DOMAIN cmd.data
        /\ ~(DOMAIN cmd.data \subseteq FieldNames)) =>
        /\ cmd.pc = "returned"
        /\ cmd.emits = 1
        /\ cmd.emit.event = COMMAND_ERROR_EVENT
        /\ cmd.emit.namespace = CONTROL_NAMESPACE
        /\ cmd.emit.to = cmd.sid
        /\ cmd.result = <<FALSE, cmd.emit.about>>
        /\ cmd.handler_command = NoCommand
        /\ cmd.user_calls = 0
        /\ cmd.default_calls = 0

\* C14 witness: a client with a CONTROL session and no DATA session got the
\* error event for a payload with cmd_type and an unknown field.
C14_Witness ==
    /\ cmd.pc = "returned"
    /\ "cmd_type" \in DOMAIN cmd.data
    /\ "bogus" \in DOMAIN cmd.data
    /\ cmd.emit.recipients = {cmd.sid}
    /\ ControlOnly

\* C15 as stated: when the processing of a disconnect event ends, the
\* session it was about no longer resolves, also when the user-supplied
\* disconnect callback raised.
C15_NoLeakedSession ==
    [][\A n \in Namespaces, s \in Sids :
        (disc.pc # "idle" /\ disc.namespace = n /\ disc.sid = s /\ disc'.pc = "idle")
            => eio_sid_from_sid(s, n)' = PyNone]_vars

\* C16: while a connect handler is due or has run for session s, the
\* inverse lookup of s in that namespace gives the connection that is
\* connecting, and that is the connection id the handler's signal reports.
C16_ConsistentAtConnect ==
    conn.pc \in {"pending", "handled"} =>
        /\ conn.eio_sid \in Conns
        /\ get_eio_sid_of_namespace(conn.sid, conn.namespace) = conn.eio_sid
        /\ conn.pc = "handled" =>
            (conn.log.sid = conn.sid /\ conn.log.eio_sid = conn.eio_sid)

\* C16 witness: the DATA connect handler has run for a session whose id
\* value names another connection's session in CONTROL.
C16_Witness ==
    /\ conn.pc = "handled"
    /\ conn.namespace = DATA_NAMESPACE
    /\ eio_sid_from_sid(conn.sid, CONTROL_NAMESPACE) \in Conns \ {conn.eio_sid}

\* The session ids live in namespace n.
LiveSids(n) == {p[1] : p \in rooms[n]}

\* C17: a session id resolves in a namespace only when it is live there,
\* and then to the connection it was created for, also when the same id
\* value is live in the other namespace for another connection.
C17_LookupsScopedByNamespace ==
    /\ \A p \in rooms[CONTROL_NAMESPACE] : get_eio_sid_of_control(p[1]) = p[2]
    /\ \A p \in rooms[DATA_NAMESPACE] : get_eio_sid_of_data(p[1]) = p[2]
    /\ \A s \in Sids \ LiveSids(CONTROL_NAMESPACE) : get_eio_sid_of_control(s) \notin Conns
    /\ \A s \in Sids \ LiveSids(DATA_NAMESPACE) : get_eio_sid_of_data(s) \notin Conns

\* C17 witness: one id is live only in CONTROL while another id value is
\* live in both namespaces for two different connections.
C17_Witness ==
    /\ \E s \in LiveSids(CONTROL_NAMESPACE) : s \notin LiveSids(DATA_NAMESPACE)
    /\ \E s \in LiveSids(CONTROL_NAMESPACE) \cap LiveSids(DATA_NAMESPACE) :
        eio_sid_from_sid(s, CONTROL_NAMESPACE) # eio_sid_from_sid(s, DATA_NAMESPACE)

\* The live session ids of connection e in namespace n.
PairSids(e, n) == {p[1] : p \in {q \in rooms[n] : q[2] = e}}

\* C18: a (connection, namespace) pair has at most one live session id; it
\* becomes connected only by the step that accepts its connect event,
\* becomes absent only by the removal that ends its disconnect event, and
\* no step changes the session id of a connected pair.
C18_TwoTransitionsOnly ==
    /\ [](\A e \in Conns, n \in Namespaces : Cardinality(PairSids(e, n)) <= 1)
    /\ [][\A e \in Conns, n \in Namespaces :
            /\ (PairSids(e, n) = {} /\ PairSids(e, n)' # {}) =>
                    /\ conn.pc = "idle" /\ conn'.pc = "pending"
                    /\ conn'.eio_sid = e /\ conn'.namespace = n
                    /\ PairSids(e, n)' = {conn'.sid}
            /\ (PairSids(e, n) # {} /\ PairSids(e, n)' = {}) =>
                    /\ disc.pc = "handled" /\ disc'.pc = "idle"
                    /\ disc.eio_sid = e /\ disc.namespace = n
                    /\ PairSids(e, n) = {disc.sid}
            /\ (PairSids(e, n) # {} /\ PairSids(e, n)' # {}) =>
                    PairSids(e, n)' = PairSids(e, n)]_vars

\* C18 witness: the disconnect handler of a pair has returned and the
\* removal is due, while the same connection is live in the other
\* namespace and a command event is being processed.
C18_Witness ==
    /\ disc.pc = "handled"
    /\ PairSids(disc.eio_sid, disc.namespace) = {disc.sid}
    /\ PairSids(disc.eio_sid, Other(disc.namespace)) # {}
    /\ cmd.pc # "idle"

\* The step processes a connect or disconnect event of a connection other
\* than a.
AboutOther(a) ==
    \/ conn' # conn /\ (IF conn'.pc # "idle" THEN conn'.eio_sid ELSE conn.eio_sid) # a
    \/ disc' # disc /\ (IF disc'.pc # "idle" THEN disc'.eio_sid ELSE disc.eio_sid) # a

\* C19: a step that processes a connect or disconnect event of another
\* connection changes no lookup for connection a; once a's connect event is
\* accepted both lookups give the new session, and once the removal of a's
\* disconnect event is done neither lookup gives the removed session.
C19_LookupsIsolatedAndFresh ==
    [][\A a \in Conns, n \in Namespaces :
        /\ AboutOther(a) =>
                /\ get_sid_of_namespace(a, n)' = get_sid_of_namespace(a, n)
                /\ \A s \in Sids : (get_eio_sid_of_namespace(s, n)' = a)
                                        <=> (get_eio_sid_of_namespace(s, n) = a)
        /\ (conn.pc = "idle" /\ conn'.pc = "pending"
                /\ conn'.eio_sid = a /\ conn'.namespace = n) =>
                /\ get_sid_of_namespace(a, n)' = Str(conn'.sid)
                /\ \A s \in Sids : conn'.sid = s =>
                        get_eio_sid_of_namespace(s, n)' = a
        /\ (disc.pc = "handled" /\ disc'.pc = "idle"
                /\ disc.eio_sid = a /\ disc.namespace = n) =>
                /\ get_sid_of_namespace(a, n)' # Str(disc.sid)
                /\ get_eio_sid_of_namespace(disc.sid, n)' # a]_vars

\* C19 witness: the disconnect of one connection is being processed in a
\* namespace where another connection has a live session.
C19_Witness ==
    /\ disc.pc = "handled"
    /\ \E a \in Conns \ {disc.eio_sid} :
        get_sid_of_namespace(a, disc.namespace) \in Sids

\* C20: a command event that control_command_callback answers itself, on
\* the parse-failure path or with the default handler, changes no session
\* entry of either namespace and no registered callback, and its outcome is
\* given by its payload alone.
C20_CommandStateless ==
    /\ [][(cmd.pc = "arrived" /\ cmd'.pc = "returned") =>
            /\ rooms' = rooms
            /\ pending' = pending
            /\ config' = config]_vars
    /\ [](cmd.pc = "returned" /\ cmd.user_calls = 0 =>
            cmd.result = IF WellFormed(cmd.data)
                         THEN <<TRUE, "Control command callback applied">>
                         ELSE <<FALSE, ParseErrorMessage(cmd.data)>>)

\* C20 witness: a payload that does not parse has been answered for a
\* session that is still live, with sessions live in the DATA namespace.
C20_Witness ==
    /\ cmd.pc = "returned"
    /\ cmd.emits = 1
    /\ ~WellFormed(cmd.data)
    /\ eio_sid_from_sid(cmd.sid, CONTROL_NAMESPACE) \in Conns
    /\ rooms[DATA_NAMESPACE] # {}
====
